---- MODULE Spec2Model ----
(***************************************************************************)
(* The identicon service: the image pipeline of src/lib.rs and the two     *)
(* request handlers around it.  The repository builds two binaries that    *)
(* share the pipeline and differ in the cache:                             *)
(*   "server"  src/bin/identicon-server.rs  tokio Mutex<lru::LruCache>     *)
(*   "shuttle" src/main.rs                  quick_cache::sync::Cache       *)
(* `build` says which binary is running; it is fixed by Init.              *)
(*                                                                         *)
(* The crates lru, quick_cache, tokio, image and md-5 are not part of the  *)
(* repository.  They are modelled by their documented behaviour at the     *)
(* place the repository calls them:                                        *)
(*   - LruCache::get_or_insert moves a present key to the front, and on a  *)
(*     miss calls the closure first and then inserts at the front, reusing *)
(*     the node of the last (least recently used) key when the cache is    *)
(*     full;                                                               *)
(*   - tokio's Mutex is fair (first come, first served) and is released    *)
(*     when its guard is dropped, also by a panic;                         *)
(*   - Cache::get_or_insert_async returns a resident value, or joins the   *)
(*     placeholder of a load in flight, or registers a placeholder and     *)
(*     runs the future; a guard dropped without a value hands the          *)
(*     placeholder to one waiter, or removes it when nobody waits.  Which  *)
(*     resident entry quick_cache evicts is its own policy: any of them;   *)
(*   - PNG encoding is lossless and the digest of the encoded bytes is     *)
(*     taken as collision free: both are constructors, not computations.   *)
(***************************************************************************)
EXTENDS Integers, Sequences, FiniteSets, TLC

\* ------------------------------------------------------------------ bounds
\* Request tasks that may be in flight at once.
NumCallers == 3
\* Distinct identifiers the clients ask for.
NumNames == 3
\* The capacity given at start-up ranges over 1..MaxCap.
MaxCap == 2

Idents == <<"alice", "bob", "carol", "dave", "erin">>
Names == {Idents[i] : i \in 1..NumNames}
Favicon == "favicon.ico"
Paths == Names \cup {Favicon}
Callers == 1..NumCallers

\* ---------------------------------------------------------------- pipeline
\* utils::md5 on the request names used here (the digests are the real ones).
md5(data) ==
  CASE data = "alice" -> <<99, 132, 226, 178, 24, 75, 203, 245, 142, 204, 241, 12, 167, 166, 86, 60>>
    [] data = "bob" -> <<159, 157, 81, 188, 112, 239, 33, 202, 92, 20, 243, 7, 152, 10, 41, 216>>
    [] data = "carol" -> <<169, 160, 25, 128, 16, 166, 7, 61, 185, 100, 52, 246, 204, 95, 34, 168>>
    [] data = "dave" -> <<22, 16, 131, 135, 67, 204, 144, 227, 228, 253, 218, 116, 130, 130, 217, 184>>
    [] data = "erin" -> <<95, 91, 227, 137, 15, 168, 117, 191, 232, 250, 121, 123, 75, 166, 163, 151>>
    [] data = "favicon.ico" -> <<138, 243, 167, 78, 222, 72, 226, 80, 206, 185, 53, 192, 38, 36, 36, 131>>

\* colors::DARK_COLORS: the palette (its colours stand for themselves).  Its
\* length does not divide 256, so that a sum of bytes that wrapped at 8 bits
\* would select another colour.
DARK_COLORS == <<"dark0", "dark1", "dark2", "dark3", "dark4", "dark5", "dark6">>

\* nibbler::Nibbler: the k-th half byte (k from 0), high half first.
Nibble(hash, k) ==
  LET b == hash[(k \div 2) + 1] IN IF k % 2 = 0 THEN b \div 16 ELSE b % 16

\* Nibbler as an iterator: next() once n items have been taken; none is left
\* after the two half bytes of every byte.
NibblerNext(hash, n) == IF n < 2 * Len(hash) THEN <<Nibble(hash, n)>> ELSE <<>>

\* ForegroundIndex with a fault: the three bytes are added as u8.
ForegroundIndexWrapping(hash) ==
  ((hash[12] + hash[13] + hash[16]) % 256) % Len(DARK_COLORS)

\* gen(): the index into the palette; each byte is widened to usize before the
\* sum (at most 765), so nothing wraps.  hash[i] of the source is hash[i + 1].
ForegroundIndex(hash) == (hash[12] + hash[13] + hash[16]) % Len(DARK_COLORS)

RECURSIVE PixelsFrom(_, _, _)
\* The loop of pixels() from its k-th iteration on: col = 2, 1, 0 and, inside,
\* row = 0..4; one nibble per iteration, written to ix and to mirror_ix.
PixelsFrom(hash, k, px) ==
  IF k = 15 THEN px
  ELSE LET col == 2 - (k \div 5)
           row == k % 5
           ix == col + (row * 5)
           mirror_col == 4 - col
           mirror_ix == mirror_col + (row * 5)
           paint == (Nibble(hash, k) % 2 = 0)
       IN PixelsFrom(hash, k + 1,
                     [px EXCEPT ![ix + 1] = paint, ![mirror_ix + 1] = paint])

\* pixels(): 25 cells, row-major, index ix + 1.
pixels(hash) == PixelsFrom(hash, 0, [i \in 1..25 |-> FALSE])

\* gen(): the bitmap is the background plus one square per painted cell in the
\* foreground colour; it is given by the cells and that colour.
gen(data) ==
  LET hash == md5(data)
      foreground == DARK_COLORS[ForegroundIndex(hash) + 1]
  IN [cells |-> pixels(hash), foreground |-> foreground]

\* gen is a pure function: its images for the paths in use, computed once.
Identicons == [data \in Names \cup {"favicon.ico"} |-> gen(data)]

\* load(): the image of the name (identicon::make, which lib.rs has as gen),
\* encoded as PNG, and the hex digest of those bytes.
load(name) ==
  LET buf == [png |-> Identicons[name]]
  IN [image |-> buf, etag |-> [md5hex |-> buf]]

\* ------------------------------------------------------------- the bitmap
SPRITE_SIZE == 5
IMAGE_SIZE == 290
PIXEL_SIZE == IMAGE_SIZE \div (SPRITE_SIZE + 1)
MARGIN == PIXEL_SIZE \div 2

\* Rgb([240, 240, 240]).
Background == "rgb(240, 240, 240)"

\* ImageBuffer::from_pixel(IMAGE_SIZE, IMAGE_SIZE, background): image[x][y].
FromPixel(color) == [x \in 0..(IMAGE_SIZE - 1) |-> [y \in 0..(IMAGE_SIZE - 1) |-> color]]

\* put_pixel panics outside the buffer: draw_rect returns only when every
\* (x, y) of x0..x1, y0..y1 (upper ends excluded) lies on the canvas.
RectOnCanvas(x0, y0, x1, y1) ==
  \A x \in x0..(x1 - 1) : \A y \in y0..(y1 - 1) : x < IMAGE_SIZE /\ y < IMAGE_SIZE

\* draw_rect with a fault: the ranges include their upper ends.
draw_rect_inclusive(img, x0, y0, x1, y1, color) ==
  [x \in DOMAIN img |->
     IF x \in x0..x1
     THEN [y \in DOMAIN img[x] |-> IF y \in y0..y1 THEN color ELSE img[x][y]]
     ELSE img[x]]

\* draw_rect(): put_pixel(x, y, color) for x in x0..x1 and y in y0..y1.
draw_rect(img, x0, y0, x1, y1, color) ==
  [x \in DOMAIN img |->
     IF x \in x0..(x1 - 1)
     THEN [y \in DOMAIN img[x] |-> IF y \in y0..(y1 - 1) THEN color ELSE img[x][y]]
     ELSE img[x]]

\* ------------------------------------------------------------------- state
VARIABLES
  build,      \* "server" or "shuttle"
  cap,        \* the capacity the cache was created with
  lru,        \* server: the LruCache, most recently used first, of [key, val]
  mutex,      \* server: the set holding the task that owns the Mutex (or empty)
  lockq,      \* server: the tasks waiting in lock().await, first come first
  qc,         \* shuttle: the resident entries, key -> value
  pending,    \* shuttle: the keys that have a placeholder (a load in flight)
  pc,         \* per task: "idle", "lockwait", "loading", "joinwait", "ready"
  req,        \* per task: the Path(name) of the request it serves ("" if none)
  entry,      \* per task: the value a placeholder delivered to it (<<>> if none)
  sent,       \* the last exchange on the wire: the request and its response
  recency,    \* history: the identifiers by last access, most recent first
  lastAccess, \* history: the last access: "hit", "insert", "insert after hit"
  sawLoad,    \* history: per task, a load of its key was in flight while it waited
  limit,      \* server: the ceiling of concurrency_limit (requests in flight)
  overdue,    \* history: the loading tasks whose request timed out or was given up
  lastLoadOverdue, \* history: the last load that returned belonged to such a task
  \* One call of gen(), followed statement by statement:
  digest,     \* hash: the 16 bytes utils::md5 returned (<<>> when no call runs)
  phase,      \* where the call is: "none", "gen", "pixels", "loop", "grid",
              \* "draw", "image", "panic"
  atCol,      \* the loop variable col (of pixels(), and of gen())
  atRow,      \* the loop variable row
  taken,      \* the items taken from the Nibbler so far
  grid,       \* the array pixels: cell (row, col) at index col + row * 5 + 1
  written,    \* history: the indices ix, mirror_ix assigned so far
  fg,         \* foreground: <<the index into DARK_COLORS>> once computed
  image       \* the RgbImage, image[x][y] (<<>> before it is created)

svcVars == <<build, cap, lru, mutex, lockq, qc, pending, pc, req, entry, sent,
             recency, lastAccess, sawLoad, limit, overdue, lastLoadOverdue>>

genVars == <<digest, phase, atCol, atRow, taken, grid, written, fg, image>>

vars == <<svcVars, genVars>>

NoReq == ""
NoSent == [path |-> "", inm |-> <<>>, status |-> "none", etag |-> <<>>, body |-> <<>>]

\* The If-None-Match values the clients send: none, or the tag of the first
\* identifier (which matches /alice and no other path).  gen_image reads the
\* header map only after the cache has answered, so the header of a request is
\* drawn where the handler reads it.
Headers == {<<>>, <<load(Idents[1]).etag>>}

\* No call of gen() is followed.
GenAtRest ==
  /\ digest = <<>>
  /\ phase = "none"
  /\ atCol = 0
  /\ atRow = 0
  /\ taken = 0
  /\ grid = <<>>
  /\ written = {}
  /\ fg = <<>>
  /\ image = <<>>

\* The service after start-up, for a build b and a capacity n.
Started(b, n) ==
  /\ build = b
  /\ cap = n
  /\ lru = <<>>
  /\ mutex = {}
  /\ lockq = <<>>
  /\ qc = [k \in {} |-> <<>>]
  /\ pending = {}
  /\ pc = [c \in Callers |-> "idle"]
  /\ req = [c \in Callers |-> NoReq]
  /\ entry = [c \in Callers |-> <<>>]
  /\ sent = NoSent
  /\ recency = <<>>
  /\ lastAccess = "none"
  /\ sawLoad = [c \in Callers |-> FALSE]
  /\ overdue = {}
  /\ lastLoadOverdue = FALSE

\* The handlers alone: the ceiling is above the number of tasks, and no
\* request is timed out or given up.
Init ==
  /\ \E b \in {"server", "shuttle"} : \E n \in 1..MaxCap : Started(b, n)
  /\ limit = NumCallers
  /\ GenAtRest

\* ------------------------------------------------------------- the handlers
\* IsFavicon with a fault: the special case is missing.
IsFaviconNever(name) == FALSE

\* gen_image, both files: the path segment that is answered without the cache.
IsFavicon(name) == name = Favicon

\* not_found(): 404 with a plain-text body.
NotFound(path, inm) ==
  [path |-> path, inm |-> inm, status |-> "404", etag |-> <<>>,
   body |-> <<[text |-> "nothing to see here"]>>]

\* ServerResponse with a fault: any If-None-Match header gets 304.
ServerResponseAnyTag(name, inm, e) ==
  IF inm # <<>>
  THEN [path |-> name, inm |-> inm, status |-> "304", etag |-> <<>>, body |-> <<>>]
  ELSE [path |-> name, inm |-> inm, status |-> "200", etag |-> <<e.etag>>,
        body |-> <<e.image>>]

\* identicon-server.rs, the end of gen_image: 304 alone when If-None-Match is
\* the entry's tag, else 200 with the headers and the image.
ServerResponse(name, inm, e) ==
  IF inm # <<>> /\ inm[1] = e.etag
  THEN [path |-> name, inm |-> inm, status |-> "304", etag |-> <<>>, body |-> <<>>]
  ELSE [path |-> name, inm |-> inm, status |-> "200", etag |-> <<e.etag>>,
        body |-> <<e.image>>]

\* main.rs, the end of gen_image: the same test; the 304 keeps the headers.
ShuttleResponse(name, inm, e) ==
  IF inm # <<>> /\ inm[1] = e.etag
  THEN [path |-> name, inm |-> inm, status |-> "304", etag |-> <<e.etag>>, body |-> <<>>]
  ELSE [path |-> name, inm |-> inm, status |-> "200", etag |-> <<e.etag>>,
        body |-> <<e.image>>]

\* The unwrap() of write_to panics: the task ends and the connection is closed
\* with no response.
Panicked(name) ==
  [path |-> name, inm |-> <<>>, status |-> "panic", etag |-> <<>>, body |-> <<>>]

\* The errors a layer can hand to handle_error: tower's Elapsed and
\* Overloaded, and any other boxed error.
BoxErrors == {"Elapsed", "Overloaded", "Other"}

\* identicon-server.rs, handle_error().
ServerHandleError(error) ==
  IF error = "Elapsed"
  THEN [status |-> "408", text |-> "request timed out"]
  ELSE IF error = "Overloaded"
  THEN [status |-> "503", text |-> "service is overloaded, try again later"]
  ELSE [status |-> "500", text |-> "unhandled internal error"]

\* main.rs, handle_error().
ShuttleHandleError(error) ==
  IF error = "Elapsed"
  THEN [status |-> "408", text |-> "request timed out"]
  ELSE [status |-> "500", text |-> "unhandled internal error"]

\* The response HandleErrorLayer sends for a request to path.
ErrorResponse(path, r) ==
  [path |-> path, inm |-> <<>>, status |-> r.status, etag |-> <<>>,
   body |-> <<[text |-> r.text]>>]

\* The requests in flight: each holds a permit of concurrency_limit from the
\* call of the service until its response future is dropped.
InFlight == Cardinality({c \in Callers : pc[c] # "idle"})

\* HasPermit with a fault: the ceiling is not enforced.
HasPermitAlways == TRUE

\* ConcurrencyLimit::poll_ready: a permit is free.
HasPermit == InFlight < limit

\* ------------------------------------------------------------ lru::LruCache
LruKeys(l) == {l[i].key : i \in 1..Len(l)}

LruIndex(l, k) == CHOOSE i \in 1..Len(l) : l[i].key = k

\* The value stored under k (get_or_insert returns a reference to it).
LruVal(l, k) == l[LruIndex(l, k)].val

\* LruPromote with a fault: a hit leaves the order as it is.
LruNoPromote(l, k) == l

\* get_or_insert, key present: the node is detached and attached at the front.
LruPromote(l, k) ==
  LET i == LruIndex(l, k)
  IN <<l[i]>> \o SubSeq(l, 1, i - 1) \o SubSeq(l, i + 1, Len(l))

\* LruInsert with a fault: nothing is evicted.
LruInsertNoEvict(l, k, v, capacity) == <<[key |-> k, val |-> v]>> \o l

\* LruInsert with a fault: a full cache gives up its first (most recently
\* used) key.
LruInsertEvictFront(l, k, v, capacity) ==
  IF Len(l) = capacity
  THEN <<[key |-> k, val |-> v]>> \o SubSeq(l, 2, Len(l))
  ELSE <<[key |-> k, val |-> v]>> \o l

\* LruInsert with a fault: the reused node keeps the value it had.
LruInsertStaleNode(l, k, v, capacity) ==
  IF Len(l) = capacity
  THEN <<[key |-> k, val |-> l[Len(l)].val]>> \o SubSeq(l, 1, Len(l) - 1)
  ELSE <<[key |-> k, val |-> v]>> \o l

\* LruInsert with a fault: the last key is given up one entry before the
\* cache is full.
LruInsertEvictEarly(l, k, v, capacity) ==
  IF l # <<>> /\ Len(l) + 1 >= capacity
  THEN <<[key |-> k, val |-> v]>> \o SubSeq(l, 1, Len(l) - 1)
  ELSE <<[key |-> k, val |-> v]>> \o l

\* get_or_insert, key absent, after the closure returned v: when the cache is
\* full the last node is taken out and reused for (k, v); the node is attached
\* at the front.
LruInsert(l, k, v, capacity) ==
  IF Len(l) = capacity
  THEN <<[key |-> k, val |-> v]>> \o SubSeq(l, 1, Len(l) - 1)
  ELSE <<[key |-> k, val |-> v]>> \o l

\* ------------------------------------------------------- quick_cache::Cache
\* PlaceholderGuard::insert: the value becomes resident under k; a full cache
\* gives up the resident entry `victim`.
QcInsert(q, k, v, capacity, victim) ==
  LET keep == IF Cardinality(DOMAIN q) >= capacity
              THEN DOMAIN q \ {victim} ELSE DOMAIN q
  IN [x \in keep \cup {k} |-> IF x = k THEN v ELSE q[x]]

\* The tasks suspended on the placeholder of key k.
Joiners(k) == {w \in Callers : pc[w] = "joinwait" /\ req[w] = k}

\* ----------------------------------------------------------------- history
\* An access (a hit or an insert) makes its identifier the most recent one.
Touch(h, k) == <<k>> \o SelectSeq(h, LAMBDA x : x # k)

\* ---------------------------------------------- identicon-server.rs actions
\* A request arrives and gets a permit.  favicon.ico is answered at once; any
\* other name goes to cache.lock().await, behind the tasks already waiting
\* there.
ServerGenImage(c, path) ==
  /\ build = "server"
  /\ pc[c] = "idle"
  /\ HasPermit
  /\ IF IsFavicon(path)
     THEN /\ \E inm \in Headers : sent' = NotFound(path, inm)
          /\ UNCHANGED <<lockq, pc, req, sawLoad>>
     ELSE /\ lockq' = Append(lockq, c)
          /\ pc' = [pc EXCEPT ![c] = "lockwait"]
          /\ req' = [req EXCEPT ![c] = path]
          /\ sawLoad' = [sawLoad EXCEPT ![c] =
                           \E d \in Callers : pc[d] = "loading" /\ req[d] = path]
          /\ UNCHANGED sent
  /\ UNCHANGED <<build, cap, lru, mutex, qc, pending, entry, recency, lastAccess>>
  /\ UNCHANGED <<limit, overdue, lastLoadOverdue, genVars>>

\* ServerLock with a fault: If-None-Match is looked at first, and a request
\* answered 304 only peeks at the entry.
ServerLockPeek304(c) ==
  /\ build = "server"
  /\ pc[c] = "lockwait"
  /\ mutex = {}
  /\ lockq # <<>> /\ Head(lockq) = c
  /\ lockq' = Tail(lockq)
  /\ IF req[c] \in LruKeys(lru)
     THEN /\ \E inm \in Headers :
               /\ sent' = ServerResponse(req[c], inm, LruVal(lru, req[c]))
               /\ lru' = IF sent'.status = "304" THEN lru ELSE LruPromote(lru, req[c])
          /\ pc' = [pc EXCEPT ![c] = "idle"]
          /\ req' = [req EXCEPT ![c] = NoReq]
          /\ recency' = Touch(recency, req[c])
          /\ lastAccess' = "hit"
          /\ sawLoad' = [sawLoad EXCEPT ![c] = FALSE]
          /\ UNCHANGED mutex
     ELSE /\ mutex' = {c}
          /\ pc' = [pc EXCEPT ![c] = "loading"]
          /\ sawLoad' = [d \in Callers |->
                           IF d # c /\ pc[d] = "lockwait" /\ req[d] = req[c]
                           THEN TRUE ELSE sawLoad[d]]
          /\ UNCHANGED <<lru, sent, req, recency, lastAccess>>
  /\ UNCHANGED <<build, cap, qc, pending, entry>>
  /\ UNCHANGED <<limit, overdue, lastLoadOverdue, genVars>>

\* The first waiting task gets the Mutex and get_or_insert looks its key up.
\* A hit moves the key to the front; the entry is cloned, the guard dropped and
\* the response built with no await in between.  A miss calls load() with the
\* guard held.
ServerLock(c) ==
  /\ build = "server"
  /\ pc[c] = "lockwait"
  /\ mutex = {}
  /\ lockq # <<>> /\ Head(lockq) = c
  /\ lockq' = Tail(lockq)
  /\ IF req[c] \in LruKeys(lru)
     THEN /\ lru' = LruPromote(lru, req[c])
          /\ \E inm \in Headers : sent' = ServerResponse(req[c], inm, LruVal(lru', req[c]))
          /\ pc' = [pc EXCEPT ![c] = "idle"]
          /\ req' = [req EXCEPT ![c] = NoReq]
          /\ recency' = Touch(recency, req[c])
          /\ lastAccess' = "hit"
          /\ sawLoad' = [sawLoad EXCEPT ![c] = FALSE]
          /\ UNCHANGED mutex
     ELSE /\ mutex' = {c}
          /\ pc' = [pc EXCEPT ![c] = "loading"]
          /\ sawLoad' = [d \in Callers |->
                           IF d # c /\ pc[d] = "lockwait" /\ req[d] = req[c]
                           THEN TRUE ELSE sawLoad[d]]
          /\ UNCHANGED <<lru, sent, req, recency, lastAccess>>
  /\ UNCHANGED <<build, cap, qc, pending, entry>>
  /\ UNCHANGED <<limit, overdue, lastLoadOverdue, genVars>>

\* load() returns: the entry is inserted at the front (the last key leaves a
\* full cache), cloned, the guard dropped and the response built.
ServerLoadOk(c) ==
  /\ build = "server"
  /\ pc[c] = "loading"
  /\ lru' = LruInsert(lru, req[c], load(req[c]), cap)
  /\ \E inm \in Headers : sent' = ServerResponse(req[c], inm, LruVal(lru', req[c]))
  /\ mutex' = {}
  /\ pc' = [pc EXCEPT ![c] = "idle"]
  /\ req' = [req EXCEPT ![c] = NoReq]
  /\ recency' = Touch(recency, req[c])
  /\ lastAccess' = IF lastAccess = "hit" THEN "insert after hit" ELSE "insert"
  /\ sawLoad' = [sawLoad EXCEPT ![c] = FALSE]
  /\ UNCHANGED <<build, cap, lockq, qc, pending, entry>>
  /\ overdue' = overdue \ {c}
  /\ lastLoadOverdue' = (c \in overdue)
  /\ UNCHANGED <<limit, genVars>>

\* ServerLoadPanic with a fault: the key was inserted before the step that
\* fails.
ServerLoadPanicCached(c) ==
  /\ build = "server"
  /\ pc[c] = "loading"
  /\ lru' = LruInsert(lru, req[c], load(req[c]), cap)
  /\ mutex' = {}
  /\ sent' = Panicked(req[c])
  /\ pc' = [pc EXCEPT ![c] = "idle"]
  /\ req' = [req EXCEPT ![c] = NoReq]
  /\ sawLoad' = [d \in Callers |->
                   IF d = c \/ req[d] = req[c] THEN FALSE ELSE sawLoad[d]]
  /\ UNCHANGED <<build, cap, lockq, qc, pending, entry, recency, lastAccess>>
  /\ overdue' = overdue \ {c}
  /\ UNCHANGED <<limit, lastLoadOverdue, genVars>>

\* load() panics in unwrap(): get_or_insert has changed nothing yet, the
\* unwinding drops the guard, the task ends without a response.
ServerLoadPanic(c) ==
  /\ build = "server"
  /\ pc[c] = "loading"
  /\ mutex' = {}
  /\ sent' = Panicked(req[c])
  /\ pc' = [pc EXCEPT ![c] = "idle"]
  /\ req' = [req EXCEPT ![c] = NoReq]
  /\ sawLoad' = [d \in Callers |->
                   IF d = c \/ req[d] = req[c] THEN FALSE ELSE sawLoad[d]]
  /\ UNCHANGED <<build, cap, lru, lockq, qc, pending, entry, recency, lastAccess>>
  /\ overdue' = overdue \ {c}
  /\ UNCHANGED <<limit, lastLoadOverdue, genVars>>

\* ---------------------------------------------------------- main.rs actions
\* A request arrives.  favicon.ico is answered at once.  Otherwise
\* get_or_insert_async: a resident value is returned and the response built; a
\* key with a placeholder suspends the task on it; any other key gets a
\* placeholder and the task starts the future.
ShuttleGenImage(c, path) ==
  /\ build = "shuttle"
  /\ pc[c] = "idle"
  /\ IF IsFavicon(path)
     THEN /\ \E inm \in Headers : sent' = NotFound(path, inm)
          /\ UNCHANGED <<pending, pc, req, sawLoad>>
     ELSE IF path \in DOMAIN qc
     THEN /\ \E inm \in Headers : sent' = ShuttleResponse(path, inm, qc[path])
          /\ UNCHANGED <<pending, pc, req, sawLoad>>
     ELSE IF path \in pending
     THEN /\ pc' = [pc EXCEPT ![c] = "joinwait"]
          /\ req' = [req EXCEPT ![c] = path]
          /\ sawLoad' = [sawLoad EXCEPT ![c] = TRUE]
          /\ UNCHANGED <<pending, sent>>
     ELSE /\ pending' = pending \cup {path}
          /\ pc' = [pc EXCEPT ![c] = "loading"]
          /\ req' = [req EXCEPT ![c] = path]
          /\ UNCHANGED <<sent, sawLoad>>
  /\ UNCHANGED <<build, cap, lru, mutex, lockq, qc, entry, recency, lastAccess>>
  /\ UNCHANGED <<limit, overdue, lastLoadOverdue, genVars>>

\* The future returns Ok(entry): the guard inserts it (a full cache gives up one
\* resident entry), the placeholder hands the value to every task suspended on
\* it, and the loading task builds its response.
ShuttleLoadOk(c) ==
  /\ build = "shuttle"
  /\ pc[c] = "loading"
  /\ LET k == req[c]
         v == load(k)
         victims == IF Cardinality(DOMAIN qc) >= cap THEN DOMAIN qc ELSE {k}
     IN /\ \E victim \in victims : qc' = QcInsert(qc, k, v, cap, victim)
        /\ pending' = pending \ {k}
        /\ pc' = [d \in Callers |->
                    IF d = c THEN "idle" ELSE IF d \in Joiners(k) THEN "ready" ELSE pc[d]]
        /\ entry' = [d \in Callers |-> IF d \in Joiners(k) THEN <<v>> ELSE entry[d]]
        /\ \E inm \in Headers : sent' = ShuttleResponse(k, inm, v)
  /\ req' = [req EXCEPT ![c] = NoReq]
  /\ sawLoad' = [sawLoad EXCEPT ![c] = FALSE]
  /\ UNCHANGED <<build, cap, lru, mutex, lockq, recency, lastAccess>>
  /\ overdue' = overdue \ {c}
  /\ lastLoadOverdue' = (c \in overdue)
  /\ UNCHANGED <<limit, genVars>>

\* A task woken with the value of its placeholder builds its response.
ShuttleJoinDone(c) ==
  /\ build = "shuttle"
  /\ pc[c] = "ready"
  /\ \E inm \in Headers : sent' = ShuttleResponse(req[c], inm, entry[c][1])
  /\ pc' = [pc EXCEPT ![c] = "idle"]
  /\ req' = [req EXCEPT ![c] = NoReq]
  /\ entry' = [entry EXCEPT ![c] = <<>>]
  /\ sawLoad' = [sawLoad EXCEPT ![c] = FALSE]
  /\ UNCHANGED <<build, cap, lru, mutex, lockq, qc, pending, recency, lastAccess>>
  /\ UNCHANGED <<limit, overdue, lastLoadOverdue, genVars>>

\* The future panics in unwrap(): the guard is dropped without a value.  One
\* task suspended on the placeholder is woken to run its own future; with none
\* suspended the placeholder is removed.  The panicking task ends without a
\* response.
ShuttleLoadPanic(c) ==
  /\ build = "shuttle"
  /\ pc[c] = "loading"
  /\ LET k == req[c]
     IN IF Joiners(k) # {}
        THEN /\ \E w \in Joiners(k) :
                  pc' = [pc EXCEPT ![c] = "idle", ![w] = "loading"]
             /\ UNCHANGED pending
        ELSE /\ pc' = [pc EXCEPT ![c] = "idle"]
             /\ pending' = pending \ {k}
  /\ sent' = Panicked(req[c])
  /\ req' = [req EXCEPT ![c] = NoReq]
  /\ sawLoad' = [d \in Callers |->
                   IF d = c \/ req[d] = req[c] THEN FALSE ELSE sawLoad[d]]
  /\ UNCHANGED <<build, cap, lru, mutex, lockq, qc, entry, recency, lastAccess>>
  /\ overdue' = overdue \ {c}
  /\ UNCHANGED <<limit, lastLoadOverdue, genVars>>

\* ------------------------------------------------------------ the layers
\* A request arrives while no permit is free: load_shed answers with
\* Overloaded, which handle_error turns into 503.  The router is not called.
ServerOverloaded(c, path) ==
  /\ build = "server"
  /\ pc[c] = "idle"
  /\ ~HasPermit
  /\ sent' = ErrorResponse(path, ServerHandleError("Overloaded"))
  /\ UNCHANGED <<build, cap, lru, mutex, lockq, qc, pending, pc, req, entry,
                 recency, lastAccess, sawLoad>>
  /\ UNCHANGED <<limit, overdue, lastLoadOverdue, genVars>>

\* ServerDrop with a fault: the future is dropped inside load() as well, and
\* its guard with it.
ServerDropLoading(c) ==
  /\ build = "server"
  /\ pc[c] \in {"lockwait", "loading"}
  /\ lockq' = SelectSeq(lockq, LAMBDA d : d # c)
  /\ mutex' = mutex \ {c}
  /\ pc' = [pc EXCEPT ![c] = "idle"]
  /\ req' = [req EXCEPT ![c] = NoReq]
  /\ sawLoad' = [sawLoad EXCEPT ![c] = FALSE]
  /\ overdue' = overdue \ {c}
  /\ \E why \in {"Elapsed", "closed"} :
       sent' = IF why = "Elapsed"
               THEN ErrorResponse(req[c], ServerHandleError(why))
               ELSE sent
  /\ UNCHANGED <<build, cap, lru, qc, pending, entry, recency, lastAccess>>
  /\ UNCHANGED <<limit, lastLoadOverdue, genVars>>

\* The future of a request suspended in cache.lock().await is dropped: by the
\* timeout layer when its sleep has elapsed (handle_error answers 408), or by
\* the server when the connection is closed (nothing is sent).  The task
\* leaves the queue of the Mutex.  A future is dropped only where it is
\* suspended: get_or_insert and load() have no await.
ServerDrop(c) ==
  /\ build = "server"
  /\ pc[c] = "lockwait"
  /\ lockq' = SelectSeq(lockq, LAMBDA d : d # c)
  /\ pc' = [pc EXCEPT ![c] = "idle"]
  /\ req' = [req EXCEPT ![c] = NoReq]
  /\ sawLoad' = [sawLoad EXCEPT ![c] = FALSE]
  /\ \E why \in {"Elapsed", "closed"} :
       sent' = IF why = "Elapsed"
               THEN ErrorResponse(req[c], ServerHandleError(why))
               ELSE sent
  /\ UNCHANGED <<build, cap, lru, mutex, qc, pending, entry, recency, lastAccess>>
  /\ UNCHANGED <<limit, overdue, lastLoadOverdue, genVars>>

\* The future of a request suspended on a placeholder is dropped: by the
\* timeout layer (408) while it waits, or by the server when the connection is
\* closed, also once the value has been delivered.  (A task woken with its
\* value is polled before its sleep is, and answers.)  The task leaves the
\* placeholder's waiters.
ShuttleDrop(c) ==
  /\ build = "shuttle"
  /\ pc[c] \in {"joinwait", "ready"}
  /\ pc' = [pc EXCEPT ![c] = "idle"]
  /\ req' = [req EXCEPT ![c] = NoReq]
  /\ entry' = [entry EXCEPT ![c] = <<>>]
  /\ sawLoad' = [sawLoad EXCEPT ![c] = FALSE]
  /\ \E why \in {"Elapsed", "closed"} :
       sent' = IF why = "Elapsed" /\ pc[c] = "joinwait"
               THEN ErrorResponse(req[c], ShuttleHandleError(why))
               ELSE sent
  /\ UNCHANGED <<build, cap, lru, mutex, lockq, qc, pending, recency, lastAccess>>
  /\ UNCHANGED <<limit, overdue, lastLoadOverdue, genVars>>

\* The sleep of the timeout layer elapses, or the connection is closed, while
\* the task is inside load(): nothing polls or drops the future before load()
\* has returned, and then it is ready with its response.
DeadlinePasses(c) ==
  /\ pc[c] = "loading"
  /\ c \notin overdue
  /\ overdue' = overdue \cup {c}
  /\ UNCHANGED <<build, cap, lru, mutex, lockq, qc, pending, pc, req, entry, sent,
                 recency, lastAccess, sawLoad>>
  /\ UNCHANGED <<limit, lastLoadOverdue, genVars>>

\* ------------------------------------------------------------ specification
Next ==
  \E c \in Callers :
    \/ \E path \in Paths : ServerGenImage(c, path)
    \/ ServerLock(c)
    \/ ServerLoadOk(c)
    \/ ServerLoadPanic(c)
    \/ \E path \in Paths : ShuttleGenImage(c, path)
    \/ ShuttleLoadOk(c)
    \/ ShuttleJoinDone(c)
    \/ ShuttleLoadPanic(c)

Spec == Init /\ [][Next]_vars

\* The handlers behind their layers: identicon-server.rs with a ceiling of
\* 1..NumCallers requests, main.rs without one; the cache has room for MaxCap
\* entries; requests time out and connections are closed at any moment.
MwInit ==
  /\ \E b \in {"server", "shuttle"} : Started(b, MaxCap)
  /\ limit \in (IF build = "server" THEN 1..NumCallers ELSE {NumCallers})
  /\ GenAtRest

MwNext ==
  \E c \in Callers :
    \/ \E path \in Paths : ServerGenImage(c, path)
    \/ ServerLock(c)
    \/ ServerLoadOk(c)
    \/ ServerLoadPanic(c)
    \/ \E path \in Paths : ShuttleGenImage(c, path)
    \/ ShuttleLoadOk(c)
    \/ ShuttleJoinDone(c)
    \/ ShuttleLoadPanic(c)
    \/ \E path \in Paths : ServerOverloaded(c, path)
    \/ ServerDrop(c)
    \/ ShuttleDrop(c)
    \/ DeadlinePasses(c)

MwSpec == MwInit /\ [][MwNext]_vars

\* The runtime polls every task that can go on: the task first in the queue of
\* the free Mutex gets it, load() returns (or panics) after its bounded loops,
\* and a task woken by its placeholder is run.
Fairness ==
  \A c \in Callers :
    /\ WF_vars(ServerLock(c))
    /\ WF_vars(ServerLoadOk(c) \/ ServerLoadPanic(c))
    /\ WF_vars(ShuttleLoadOk(c) \/ ShuttleLoadPanic(c))
    /\ WF_vars(ShuttleJoinDone(c))

FairSpec == Init /\ [][Next]_vars /\ Fairness

\* The cache's keys, whichever the build.
Keys == IF build = "server" THEN LruKeys(lru) ELSE DOMAIN qc

TypeOK ==
  /\ build \in {"server", "shuttle"}
  /\ cap \in 1..MaxCap
  /\ mutex \subseteq Callers /\ Cardinality(mutex) <= 1
  /\ pending \subseteq Names
  /\ Keys \subseteq Names
  /\ pc \in [Callers -> {"idle", "lockwait", "loading", "joinwait", "ready"}]
  /\ \A c \in Callers : (pc[c] = "idle") <=> (req[c] = NoReq)

\* ---------------------------------------------------- one call of gen()
\* The hashes a call is followed for.  utils::md5 can return any 16 bytes; the
\* sets below are the ones the checks run over.
\* The first NumVaried half bytes take every combination of an even and an odd
\* value; the others are fixed.
NumVaried == 15
NibbleSamples == {14, 1}
Assemble(nib) == [i \in 1..16 |-> (16 * nib[2 * (i - 1)]) + nib[(2 * (i - 1)) + 1]]
PatternDigests ==
  {Assemble([k \in 0..31 |-> IF k < NumVaried THEN f[k] ELSE k % 16]) :
     f \in [0..(NumVaried - 1) -> NibbleSamples]}

\* Every combination of small and large values in the three bytes the colour
\* is taken from, and two values of a byte next to them.
ByteSamples == {0, 1, 128, 255}
ColourDigests ==
  {[md5(Idents[1]) EXCEPT ![12] = a, ![13] = b, ![16] = c, ![15] = o] :
     a \in ByteSamples, b \in ByteSamples, c \in ByteSamples, o \in {0, 255}}

\* The hashes of the paths in use.
PathDigests == {md5(data) : data \in Paths}

Digests == PatternDigests \cup ColourDigests \cup PathDigests

\* gen() has its hash; nothing else is computed yet.
GenInit ==
  /\ Started("server", MaxCap)
  /\ limit = NumCallers
  /\ digest \in Digests
  /\ phase = "gen"
  /\ atCol = 0
  /\ atRow = 0
  /\ taken = 0
  /\ grid = <<>>
  /\ written = {}
  /\ fg = <<>>
  /\ image = <<>>

\* gen(), the foreground: the palette is indexed (a panic when out of range).
GenForeground ==
  /\ phase = "gen"
  /\ LET i == ForegroundIndex(digest)
     IN IF i < Len(DARK_COLORS)
        THEN fg' = <<i>> /\ phase' = "pixels"
        ELSE fg' = fg /\ phase' = "panic"
  /\ UNCHANGED <<digest, atCol, atRow, taken, grid, written, image>>
  /\ UNCHANGED svcVars

\* pixels() is entered: a fresh Nibbler, the array of 25 times false, and the
\* loops at col = 2, row = 0.
PixelsEnter ==
  /\ phase = "pixels"
  /\ phase' = "loop"
  /\ taken' = 0
  /\ grid' = [i \in 1..25 |-> FALSE]
  /\ written' = {}
  /\ atCol' = 2
  /\ atRow' = 0
  /\ UNCHANGED <<digest, fg, image>>
  /\ UNCHANGED svcVars

\* PixelsStep with a fault: the mirror cell is not written.
PixelsStepNoMirror ==
  /\ phase = "loop"
  /\ atCol >= 0
  /\ LET ix == atCol + (atRow * 5)
         next == NibblerNext(digest, taken)
     IN IF next = <<>>
        THEN phase' = "panic" /\ UNCHANGED <<atCol, atRow, taken, grid, written>>
        ELSE /\ grid' = [grid EXCEPT ![ix + 1] = (next[1] % 2 = 0)]
             /\ written' = written \cup {ix}
             /\ taken' = taken + 1
             /\ IF atRow < 4
                THEN atRow' = atRow + 1 /\ atCol' = atCol
                ELSE atRow' = 0 /\ atCol' = atCol - 1
             /\ phase' = phase
  /\ UNCHANGED <<digest, fg, image>>
  /\ UNCHANGED svcVars

\* PixelsStep with a fault: the loops are nested the other way round (row
\* outside, col inside).
PixelsStepRowOutside ==
  /\ phase = "loop"
  /\ atCol >= 0
  /\ LET c == 2 - (taken % 3)
         r == taken \div 3
         ix == c + (r * 5)
         mirror_col == 4 - c
         mirror_ix == mirror_col + (r * 5)
         next == NibblerNext(digest, taken)
     IN IF next = <<>>
        THEN phase' = "panic" /\ UNCHANGED <<atCol, atRow, taken, grid, written>>
        ELSE /\ grid' = [grid EXCEPT ![ix + 1] = (next[1] % 2 = 0),
                                 ![mirror_ix + 1] = (next[1] % 2 = 0)]
             /\ written' = written \cup {ix, mirror_ix}
             /\ taken' = taken + 1
             /\ IF atRow < 4
                THEN atRow' = atRow + 1 /\ atCol' = atCol
                ELSE atRow' = 0 /\ atCol' = atCol - 1
             /\ phase' = phase
  /\ UNCHANGED <<digest, fg, image>>
  /\ UNCHANGED svcVars

\* pixels(), one pass of the loop body: nibbles.next().unwrap() (a panic when
\* the Nibbler is used up), the cell and its mirror are assigned, and the
\* loops advance: row 0..4 inside, col 2, 1, 0 outside.
PixelsStep ==
  /\ phase = "loop"
  /\ atCol >= 0
  /\ LET ix == atCol + (atRow * 5)
         mirror_col == 4 - atCol
         mirror_ix == mirror_col + (atRow * 5)
         next == NibblerNext(digest, taken)
     IN IF next = <<>>
        THEN phase' = "panic" /\ UNCHANGED <<atCol, atRow, taken, grid, written>>
        ELSE /\ grid' = [grid EXCEPT ![ix + 1] = (next[1] % 2 = 0),
                                 ![mirror_ix + 1] = (next[1] % 2 = 0)]
             /\ written' = written \cup {ix, mirror_ix}
             /\ taken' = taken + 1
             /\ IF atRow < 4
                THEN atRow' = atRow + 1 /\ atCol' = atCol
                ELSE atRow' = 0 /\ atCol' = atCol - 1
             /\ phase' = phase
  /\ UNCHANGED <<digest, fg, image>>
  /\ UNCHANGED svcVars

\* pixels() returns the array once the loops are through.
PixelsReturn ==
  /\ phase = "loop"
  /\ atCol < 0
  /\ phase' = "grid"
  /\ UNCHANGED <<digest, atCol, atRow, taken, grid, written, fg, image>>
  /\ UNCHANGED svcVars

GenNext == GenForeground \/ PixelsEnter \/ PixelsStep \/ PixelsReturn

\* gen() from its hash to the grid and the colour.
GenSpec == GenInit /\ [][GenNext]_vars

\* The hashes the bitmap is drawn for: those of the paths, one that paints
\* every cell and one that paints none.
RasterDigests ==
  PathDigests \cup {Assemble([k \in 0..31 |-> 0]), Assemble([k \in 0..31 |-> 1])}

\* gen() at its loop: the colour is chosen, the image is all background,
\* pixels(hash) has returned and its first chunk is being enumerated.
RasterInit ==
  /\ Started("server", MaxCap)
  /\ limit = NumCallers
  /\ digest \in RasterDigests
  /\ phase = "draw"
  /\ atCol = 0
  /\ atRow = 0
  /\ taken = 15
  /\ grid = pixels(digest)
  /\ written = 0..24
  /\ fg = <<ForegroundIndex(digest)>>
  /\ image = FromPixel(Background)

\* gen(), one pass of the inner loop body: element col of chunk row; a painted
\* one gets its square drawn (a panic when put_pixel leaves the buffer).  The
\* chunks have SPRITE_SIZE elements each.
DrawCell ==
  /\ phase = "draw"
  /\ atRow * SPRITE_SIZE < Len(grid)
  /\ LET painted == grid[atCol + (atRow * SPRITE_SIZE) + 1]
         x == atCol * PIXEL_SIZE
         y == atRow * PIXEL_SIZE
         x0 == x + MARGIN
         y0 == y + MARGIN
         x1 == x + PIXEL_SIZE + MARGIN
         y1 == y + PIXEL_SIZE + MARGIN
     IN IF painted /\ ~RectOnCanvas(x0, y0, x1, y1)
        THEN phase' = "panic" /\ UNCHANGED <<image, atCol, atRow>>
        ELSE /\ image' = IF painted
                         THEN draw_rect(image, x0, y0, x1, y1,
                                        DARK_COLORS[fg[1] + 1])
                         ELSE image
             /\ IF atCol < SPRITE_SIZE - 1
                THEN atCol' = atCol + 1 /\ atRow' = atRow
                ELSE atCol' = 0 /\ atRow' = atRow + 1
             /\ phase' = phase
  /\ UNCHANGED <<digest, taken, grid, written, fg>>
  /\ UNCHANGED svcVars

\* gen() returns the image after the last chunk.
GenReturn ==
  /\ phase = "draw"
  /\ atRow * SPRITE_SIZE >= Len(grid)
  /\ phase' = "image"
  /\ UNCHANGED <<digest, atCol, atRow, taken, grid, written, fg, image>>
  /\ UNCHANGED svcVars

RasterNext == DrawCell \/ GenReturn

\* gen() from the grid and the colour to the bitmap.
RasterSpec == RasterInit /\ [][RasterNext]_vars

\* ------------------------------------------------------------------ claims
Max(S) == CHOOSE x \in S : \A y \in S : y <= x

Min2(a, b) == IF a <= b THEN a ELSE b

\* The value the cache holds under k.
CacheVal(k) == IF build = "server" THEN LruVal(lru, k) ELSE qc[k]

\* Among the identifiers of S, the one whose last access is the oldest.
OldestOf(S) == recency[Max({i \in 1..Len(recency) : recency[i] \in S})]

\* The step in which task c's load panics.
PanicStep(c) == pc[c] = "loading" /\ pc'[c] = "idle" /\ sent'.status = "panic"

\* C1: single-flight: a task that called while a load of its identifier was in
\* flight (and did not fail) never runs the pipeline itself; it returns the
\* entry of that load.
C1_SingleFlight == \A c \in Callers : pc[c] = "loading" => ~sawLoad[c]

\* Task d cannot go on before task c does: c owns the Mutex d is queued on, or
\* c runs the load whose placeholder d is suspended on.
WaitsFor(d, c) ==
  \/ c \in mutex /\ pc[d] = "lockwait"
  \/ pc[c] = "loading" /\ pc[d] = "joinwait" /\ req[d] = req[c]

\* C2: non-blocking across keys: the pipeline never runs with the cache's lock
\* held, and a task that waits for a task running the pipeline asked for the
\* same identifier.
C2_NonBlocking ==
  \A c \in Callers :
    pc[c] = "loading" =>
      /\ c \notin mutex
      /\ \A d \in Callers : WaitsFor(d, c) => req[d] = req[c]

\* C3: bounded memory: the table never holds more than cap entries, cap >= 1.
C3_Bounded ==
  /\ cap >= 1
  /\ Cardinality(Keys) <= cap
  /\ build = "server" => Len(lru) = Cardinality(LruKeys(lru))

C3_Witness == build = "server" /\ Len(lru) = cap /\ Len(recency) > cap

C6_FailureNotCached ==
  /\ [][\A c \in Callers : PanicStep(c) =>
          /\ lru' = lru /\ qc' = qc
          /\ req[c] \notin Keys'
          /\ mutex' = {}]_vars
  /\ [](/\ \A k \in pending : \E c \in Callers : pc[c] = "loading" /\ req[c] = k
        /\ \A c \in mutex : pc[c] = "loading"
        /\ \A c \in Callers : pc[c] = "joinwait" => req[c] \in pending
        /\ pending \cap Keys = {})

C6_Witness ==
  /\ sent.status = "panic"
  /\ sent.path \notin Keys
  /\ \E c \in Callers : pc[c] = "loading" /\ req[c] = sent.path

\* C7: failure reaches every waiter: in the step in which a load panics, every
\* task that was waiting for that identifier ends with the failure.
C7_FailureToWaiters ==
  [][\A c \in Callers : PanicStep(c) =>
       \A w \in Callers :
         (pc[w] \in {"lockwait", "joinwait"} /\ req[w] = req[c]) => pc'[w] = "idle"]_vars

\* C8: determinism through the cache: the entry under key b, every value a
\* placeholder delivers and every 200 response for b is the pipeline's result
\* for b, its tag the digest of its own image bytes, and is the result of no
\* other identifier.
IsResultOf(e, b) ==
  /\ e.image = [png |-> Identicons[b]]
  /\ e.etag = [md5hex |-> e.image]
  /\ \A o \in Names \ {b} : e # load(o) /\ e.etag # load(o).etag

C8_Determinism ==
  /\ \A b \in Keys : IsResultOf(CacheVal(b), b)
  /\ \A c \in Callers : entry[c] # <<>> => IsResultOf(entry[c][1], req[c])
  /\ sent.status = "200" =>
       IsResultOf([image |-> sent.body[1], etag |-> sent.etag[1]], sent.path)

C8_Witness ==
  /\ build = "server"
  /\ Len(recency) > cap
  /\ lastAccess = "insert"
  /\ sent.status = "200" /\ sent.path = recency[1]
  /\ IsResultOf(CacheVal(recency[1]), recency[1])

\* C9: conditional response: a request whose If-None-Match equals the
\* identifier's fingerprint gets 304 with no body; without the header, or with
\* another value, it gets 200 with the image and the tag of that identifier.
C9_Conditional ==
  sent.status \in {"200", "304"} =>
    IF sent.inm = <<load(sent.path).etag>>
    THEN sent.status = "304" /\ sent.body = <<>>
    ELSE /\ sent.status = "200"
         /\ sent.body = <<load(sent.path).image>>
         /\ sent.etag = <<load(sent.path).etag>>

C9_Witness ==
  /\ sent.path = Idents[1]
  /\ sent.inm = <<load(Idents[1]).etag>>
  /\ sent.status = "304"

\* C10: GET /favicon.ico is answered 404 in every state and touches neither
\* the cache nor any task: no lookup, insertion, eviction, recency change or
\* load.
C10_Favicon ==
  /\ [](/\ sent.path = Favicon => sent.status = "404"
        /\ Favicon \notin Keys \cup pending
        /\ \A c \in Callers : req[c] # Favicon)
  /\ [][sent'.path = Favicon /\ sent' # sent =>
          UNCHANGED <<lru, mutex, lockq, qc, pending, pc, req, entry, recency,
                      lastAccess>>]_vars

C10_Witness ==
  /\ sent.path = Favicon
  /\ sent.status = "404"
  /\ Keys # {}
  /\ \E c \in Callers : pc[c] = "loading"

\* The cell of row r and column c of a grid g (both from 0).
Cell(g, r, c) == g[c + (r * 5) + 1]

\* The k-th half byte of the hash (k from 0): byte k div 2 (from 0), its high
\* half when k is even and its low half when k is odd.
HalfByte(h, k) ==
  IF k % 2 = 0 THEN h[(k \div 2) + 1] \div 16 ELSE h[(k \div 2) + 1] % 16

\* C11: mirror invariant: in the grid pixels() builds, during the loop and when
\* it returns, cell (r, c) equals cell (r, 4 - c) for every row and column; the
\* returned grid has had every one of its 25 cells assigned, and it is the
\* grid the service uses for that hash.
C11_Mirror ==
  /\ phase \in {"loop", "grid"} =>
       \A r \in 0..4 : \A c \in 0..4 : Cell(grid, r, c) = Cell(grid, r, 4 - c)
  /\ phase = "grid" =>
       /\ written = 0..24
       /\ grid = pixels(digest)

C11_Witness ==
  /\ phase = "grid"
  /\ written = 0..24
  /\ Cell(grid, 0, 0) /\ Cell(grid, 0, 4)
  /\ ~Cell(grid, 1, 1) /\ ~Cell(grid, 1, 3)
  /\ Cell(grid, 1, 2)

\* C15: fill order: the loop takes the half bytes of the hash in sequence, high
\* half before low half, one per pass; after n passes exactly the cells (r, c),
\* c <= 2, with (2 - c) * 5 + r < n and their mirrors are assigned, each painted
\* iff half byte number (2 - c) * 5 + r is even; pixels() returns after 15 of
\* the 32 half bytes, and next() never comes back empty.
C15_FillOrder ==
  /\ phase # "panic"
  /\ phase \in {"loop", "grid"} =>
       /\ taken = (IF atCol < 0 THEN 15 ELSE ((2 - atCol) * 5) + atRow)
       /\ taken < 2 * Len(digest)
       /\ \A r \in 0..4 : \A c \in 0..2 :
            LET n == ((2 - c) * 5) + r
            IN /\ (c + (r * 5)) \in written <=> n < taken
               /\ (4 - c + (r * 5)) \in written <=> n < taken
               /\ n < taken =>
                    /\ Cell(grid, r, c) = (HalfByte(digest, n) % 2 = 0)
                    /\ Cell(grid, r, 4 - c) = (HalfByte(digest, n) % 2 = 0)
  /\ phase = "grid" => taken = 15 /\ 2 * Len(digest) = 32

C15_Witness ==
  /\ phase = "grid"
  /\ taken = 15
  /\ HalfByte(digest, 14) = 1 /\ ~Cell(grid, 4, 0) /\ ~Cell(grid, 4, 4)
  /\ HalfByte(digest, 10) = 14 /\ Cell(grid, 0, 0) /\ Cell(grid, 0, 4)
  /\ HalfByte(digest, 0) = 1 /\ ~Cell(grid, 0, 2)

\* C16: foreground colour index: the index is the sum of bytes 11, 12 and 15
\* of the hash (counted from 0), taken as an integer of 0..765, modulo the
\* length of the palette; it is an index of the palette, and two hashes that
\* agree in these three bytes get the same index.
C16_ForegroundIndex ==
  fg # <<>> =>
    LET sum == digest[11 + 1] + digest[12 + 1] + digest[15 + 1]
    IN /\ sum \in 0..765
       /\ fg[1] = sum % Len(DARK_COLORS)
       /\ fg[1] \in 0..(Len(DARK_COLORS) - 1)
       /\ phase = "pixels" =>
            \A e \in ColourDigests :
              (e[12] = digest[12] /\ e[13] = digest[13] /\ e[16] = digest[16])
                => ForegroundIndex(e) = fg[1]

C16_Witness ==
  /\ fg # <<>>
  /\ digest[12] + digest[13] + digest[16] = 765
  /\ fg[1] = 765 % Len(DARK_COLORS)
  /\ fg[1] # (765 % 256) % Len(DARK_COLORS)
  /\ digest[15] = 255

\* The loops of gen() are past the cell of row r and column c.
Handled(r, c) == phase = "image" \/ (r * 5) + c < (atRow * 5) + atCol

\* C17: rasterizer: in the 290 x 290 bitmap gen() builds and returns, pixel
\* (x, y) has the foreground colour iff 24 <= x < 264, 24 <= y < 264 and the
\* cell of row (y - 24) div 48 and column (x - 24) div 48 is painted (and, while
\* the loops run, already handled), and the background colour otherwise; no
\* put_pixel of draw_rect falls outside the canvas.
C17_Rasterizer ==
  /\ phase # "panic"
  /\ phase \in {"draw", "image"} =>
       /\ DOMAIN image = 0..289
       /\ \A x \in 0..289 :
            /\ DOMAIN image[x] = 0..289
            /\ \A y \in 0..289 :
                 image[x][y] =
                   IF /\ 24 <= x /\ x < 264
                      /\ 24 <= y /\ y < 264
                      /\ Cell(grid, (y - 24) \div 48, (x - 24) \div 48)
                      /\ Handled((y - 24) \div 48, (x - 24) \div 48)
                   THEN DARK_COLORS[fg[1] + 1]
                   ELSE Background

C17_Witness ==
  /\ phase = "image"
  /\ Cell(grid, 4, 4) /\ ~Cell(grid, 3, 4) /\ Cell(grid, 4, 3)
  /\ image[263][263] = DARK_COLORS[fg[1] + 1]
  /\ image[216][263] = DARK_COLORS[fg[1] + 1]
  /\ image[215][263] = DARK_COLORS[fg[1] + 1]
  /\ image[263][215] = Background
  /\ image[264][263] = Background
  /\ image[23][23] = Background

\* Task c leaves load() in this step.
LoadEnds(c) == pc[c] = "loading" /\ pc'[c] # "loading"

\* C12: cancellation does not abort a computation: a task whose request timed
\* out or was given up inside load() is still loading; a load ends only by
\* its own panic or by storing its entry under its key (first in the LruCache;
\* handed to every task suspended on the placeholder); and no step of another
\* task takes a placeholder away from a load that goes on.
C12_CancelKeepsLoad ==
  /\ [](\A c \in overdue : pc[c] = "loading")
  /\ [][\A c \in Callers :
          LoadEnds(c) =>
            \/ PanicStep(c)
            \/ LET k == req[c]
               IN /\ k \in Keys'
                  /\ build = "server" => lru'[1] = [key |-> k, val |-> load(k)]
                  /\ build = "shuttle" =>
                       /\ qc'[k] = load(k)
                       /\ \A w \in Callers :
                            (pc[w] = "joinwait" /\ req[w] = k) =>
                              (pc'[w] = "ready" /\ entry'[w] = <<load(k)>>)]_vars
  /\ [][\A c \in Callers :
          (pc[c] = "loading" /\ pc'[c] = "loading") =>
            /\ req'[c] = req[c]
            /\ c \in mutex => c \in mutex'
            /\ req[c] \in pending => req[c] \in pending']_vars

C12_Witness ==
  /\ lastLoadOverdue
  /\ sent.status = "200"
  /\ sent.path \in Keys
  /\ \E w \in Callers : pc[w] \in {"lockwait", "ready"} /\ req[w] = sent.path

\* An identifier is Present with an entry in the table, Pending while a load of
\* it runs (under the Mutex, or behind a placeholder), Absent otherwise.
Loading(k) == \E c \in Callers : pc[c] = "loading" /\ req[c] = k

Status(k) ==
  IF k \in Keys THEN "Present"
  ELSE IF k \in pending \/ Loading(k) THEN "Pending"
  ELSE "Absent"

\* C13: per-identifier state machine: Absent goes to Pending only, Present to
\* Absent only; Pending becomes Absent only in the step its load panics, and
\* Present only with the pipeline's result; a Present entry becomes Absent only
\* in a step that inserts another identifier into a full table; it is not
\* loaded again and keeps its value while Present.
C13_StateMachine ==
  /\ [](\A k \in Names : k \in Keys => ~(k \in pending \/ Loading(k)))
  /\ [][\A k \in Names :
          LET s == Status(k)
              t == Status(k)'
          IN /\ s = "Absent" => t \in {"Absent", "Pending"}
             /\ s = "Present" => t \in {"Present", "Absent"}
             /\ (s = "Pending" /\ t = "Absent") =>
                  \E c \in Callers : PanicStep(c) /\ req[c] = k
             /\ (s = "Pending" /\ t = "Present") => CacheVal(k)' = load(k)
             /\ (s = "Present" /\ t = "Present") => CacheVal(k)' = CacheVal(k)
             /\ (s = "Present" /\ t = "Absent") =>
                  /\ Cardinality(Keys) = cap
                  /\ \E j \in Names \ {k} : j \notin Keys /\ j \in Keys']_vars

C13_Witness ==
  /\ build = "server"
  /\ \E a \in Names :
       /\ \E i \in 1..Len(recency) : recency[i] = a
       /\ Status(a) = "Absent"
  /\ \E b \in Names : Status(b) = "Present"
  /\ \E k \in Names : Status(k) = "Pending"

C18_OverloadTimeout ==
  /\ [](InFlight <= limit)
  /\ [](\A e \in BoxErrors :
          /\ ServerHandleError(e).status =
               (IF e = "Elapsed" THEN "408" ELSE IF e = "Overloaded" THEN "503" ELSE "500")
          /\ ShuttleHandleError(e).status = (IF e = "Elapsed" THEN "408" ELSE "500"))
  /\ [][\A c \in Callers :
          (pc[c] = "idle" /\ InFlight >= limit) => pc'[c] = "idle"]_vars
  /\ [][(sent' # sent /\ sent'.status = "503") =>
          /\ build = "server"
          /\ InFlight = limit
          /\ UNCHANGED <<lru, mutex, lockq, qc, pending, pc, req, entry, recency,
                         lastAccess, overdue>>]_vars
  /\ [][(sent' # sent /\ sent'.status = "408") =>
          /\ UNCHANGED <<lru, mutex, qc, pending, recency, lastAccess, overdue>>
          /\ \E c \in Callers :
               /\ pc[c] \in {"lockwait", "joinwait"}
               /\ req[c] = sent'.path
               /\ pc'[c] = "idle"
               /\ lockq' = SelectSeq(lockq, LAMBDA d : d # c)
               /\ \A d \in Callers \ {c} :
                    pc'[d] = pc[d] /\ req'[d] = req[d] /\ entry'[d] = entry[d]]_vars

C18_Witness ==
  /\ sent.status = "503"
  /\ InFlight = limit
  /\ Keys # {}
  /\ \E c \in Callers : pc[c] = "loading"
  /\ \E c \in Callers : pc[c] = "lockwait"

\* C19: the cache is asked before If-None-Match is read: a step that answers a
\* request for k with 200 or with 304 has the same effect on the cache.  In the
\* LruCache k moves to the front when present and is inserted with the
\* pipeline's result (the last key leaving a full cache) when absent; in the
\* quick_cache table a resident k stays, and an absent k is inserted unless the
\* answer is that of a task woken by k's placeholder.
C19_LookupFirst ==
  [][(sent' # sent /\ sent'.status \in {"200", "304"}) =>
       LET k == sent'.path
       IN IF build = "server"
          THEN /\ lru' = IF k \in LruKeys(lru)
                         THEN LruPromote(lru, k)
                         ELSE LruInsert(lru, k, load(k), cap)
               /\ recency' = Touch(recency, k)
          ELSE IF k \in DOMAIN qc
          THEN qc' = qc
          ELSE \/ k \in DOMAIN qc' /\ qc'[k] = load(k) /\ k \notin pending'
               \/ /\ qc' = qc
                  /\ \E c \in Callers : pc[c] = "ready" /\ req[c] = k /\ pc'[c] = "idle"]_vars

C19_Witness ==
  /\ build = "server"
  /\ sent.status = "304"
  /\ lastAccess = "insert"
  /\ Len(recency) > cap
  /\ recency[1] = sent.path
  /\ lru[1].key = sent.path
  /\ recency[cap + 1] \notin Keys

====
